---- MODULE Spec2Model ----
(***************************************************************************)
(* State-machine model of the universal_nft program                        *)
(* (programs/universal_nft/src/lib.rs): the singleton NftProgramState, the *)
(* per-mint NftInfo records, the SPL token ledger the program drives by    *)
(* CPI, the Borsh codec of CrossChainMessage and the six entry points.     *)
(*                                                                         *)
(* The host executes every instruction atomically: an instruction that     *)
(* returns an error leaves no account changed.  Each action below is one   *)
(* instruction: the result it returns is computed by its ...Result         *)
(* operator, an instruction that returns an error is a step that changes   *)
(* nothing, and one that returns Ok records its inputs in lastOp.          *)
(***************************************************************************)
EXTENDS Integers, Sequences, FiniteSets, TLC

VARIABLES
    nft_program,     \* NftProgramState singleton (seeds "nft-program")
    nft_info,        \* mint address -> NftInfo, for the nft_info accounts that exist
    mint_supply,     \* mint address -> supply, for the initialized SPL mints
    token_accounts,  \* <<mint, holder>> -> amount, for the associated token accounts that exist
    metadata,        \* mint address -> DataV2 (name, symbol, uri), for the metadata accounts that exist
    lastOp,          \* the last instruction that returned Ok, with its inputs
    codec            \* encode/decode round trip of one CrossChainMessage (SpecCodec only)

vars == <<nft_program, nft_info, mint_supply, token_accounts, metadata, lastOp, codec>>

ledger == <<nft_program, nft_info, mint_supply, token_accounts, metadata>>

-----------------------------------------------------------------------------
(* Bounds of the model *)

\* nonces offered to the nonce-carrying instructions are 0..MaxNonce
MaxNonce == 3

\* units of one mint in circulation (an inbound Transfer mints one more each time)
MaxUnits == 2

-----------------------------------------------------------------------------
(* Program constants *)

\* Pubkey and [u8; 32] width
PubkeyLen == 32

\* _sender: [u8; 20]
SenderLen == 20

MaxNameLen == 32

MaxSymbolLen == 10

MaxUriLen == 200

-----------------------------------------------------------------------------
(* Bytes and keys *)

Rep(n, b) == [i \in 1..n |-> b]

\* the all-zero key: the value of a freshly created account's key fields, and [0; 32]
ZeroKey == Rep(PubkeyLen, 0)

\* wallets
O1 == Rep(PubkeyLen, 1)

O2 == Rep(PubkeyLen, 2)

Users == {O1, O2}

\* remote address given to transfer_to_zetachain
RemoteR == Rep(PubkeyLen, 7)

\* crate::gateway::ID
GATEWAY_ID == Rep(PubkeyLen, 10)

\* some other program
OTHER_PROGRAM == Rep(PubkeyLen, 11)

\* crate::ID
PROGRAM_ID == Rep(PubkeyLen, 12)

\* address of the nft_program account (seeds [b"nft-program"]): the authority of
\* the mints and of the custody token accounts
NFT_PROGRAM_PDA == Rep(PubkeyLen, 13)

\* mint keypair presented to mint_nft
M1 == Rep(PubkeyLen, 21)

KeypairMints == {M1}

\* Address of the on_call mint account, seeds [b"nft-mint", mint_key].  The
\* derivation is a hash of the seeds; it is modelled by a collision-free map whose
\* value never equals its seed.
MintPda(mint_key) == [i \in 1..PubkeyLen |-> 255 - mint_key[i]]

Holders == Users \cup {NFT_PROGRAM_PDA}

\* little-endian bytes of n, w bytes wide
RECURSIVE ToLE(_, _)
ToLE(n, w) == IF w = 0 THEN <<>> ELSE <<n % 256>> \o ToLE(n \div 256, w - 1)

\* value of little-endian bytes
RECURSIVE FromLE(_)
FromLE(b) == IF Len(b) = 0 THEN 0 ELSE b[1] + 256 * FromLE(Tail(b))

\* width of the UTF-8 sequence a byte starts: 0 when it starts none
Utf8Width(b) ==
    IF b < 128 THEN 1
    ELSE IF b >= 194 /\ b <= 223 THEN 2
    ELSE IF b >= 224 /\ b <= 239 THEN 3
    ELSE IF b >= 240 /\ b <= 244 THEN 4
    ELSE 0

Utf8Continuation(b) == b >= 128 /\ b <= 191

\* the range of the byte that follows the lead byte b
Utf8Second(b, c) ==
    IF b = 224 THEN c >= 160 /\ c <= 191
    ELSE IF b = 237 THEN c >= 128 /\ c <= 159
    ELSE IF b = 240 THEN c >= 144 /\ c <= 191
    ELSE IF b = 244 THEN c >= 128 /\ c <= 143
    ELSE Utf8Continuation(c)

\* str::from_utf8: whether the bytes are well-formed UTF-8.  Every byte either
\* starts a sequence that is complete, or continues the sequence that a lead
\* byte at most three places before it starts.
IsUtf8(s) ==
    \A i \in 1..Len(s) :
        IF Utf8Continuation(s[i])
        THEN \E k \in 1..3 :
                /\ i - k >= 1
                /\ Utf8Width(s[i - k]) > k
                /\ \A j \in (i - k + 1)..(i - 1) : Utf8Continuation(s[j])
        ELSE /\ Utf8Width(s[i]) > 0
             /\ i + Utf8Width(s[i]) - 1 <= Len(s)
             /\ \A j \in (i + 1)..(i + Utf8Width(s[i]) - 1) : Utf8Continuation(s[j])
             /\ Utf8Width(s[i]) > 1 => Utf8Second(s[i], s[i + 1])

-----------------------------------------------------------------------------
(* CrossChainMessage and its Borsh codec *)

\* the MessageType variants in declaration order: the variant index is the tag byte
MessageTypes == <<"Transfer", "Unlock">>

TagOf(t) == (CHOOSE i \in 1..Len(MessageTypes) : MessageTypes[i] = t) - 1

Message(t, mint, recipient, uri, name, symbol, nonce) ==
    [message_type |-> t, mint |-> mint, recipient |-> recipient,
     metadata_uri |-> uri, name |-> name, symbol |-> symbol, nonce |-> nonce]

NoMessage == Message("Transfer", ZeroKey, ZeroKey, <<>>, <<>>, <<>>, 0)

\* String: u32 little-endian length, then the bytes
EncodeString(s) == ToLE(Len(s), 4) \o s

\* message.try_to_vec(): the fields in declaration order
Encode(m) ==
    <<TagOf(m.message_type)>> \o m.mint \o m.recipient
        \o EncodeString(m.metadata_uri) \o EncodeString(m.name)
        \o EncodeString(m.symbol) \o ToLE(m.nonce, 8)

\* a read of the cursor: ok, the value read, the bytes left
Read(ok, val, rest) == [ok |-> ok, val |-> val, rest |-> rest]

ReadFixed(buf, n) ==
    IF Len(buf) < n THEN Read(FALSE, <<>>, buf)
    ELSE Read(TRUE, SubSeq(buf, 1, n), SubSeq(buf, n + 1, Len(buf)))

ReadEnum(buf) ==
    IF Len(buf) < 1 \/ buf[1] >= Len(MessageTypes) THEN Read(FALSE, "Transfer", buf)
    ELSE Read(TRUE, MessageTypes[buf[1] + 1], Tail(buf))

ReadString(buf) ==
    LET l == ReadFixed(buf, 4) IN
    IF ~l.ok THEN Read(FALSE, <<>>, buf)
    ELSE IF l.val[3] # 0 \/ l.val[4] # 0 \/ FromLE(l.val) > Len(l.rest)
         THEN Read(FALSE, <<>>, buf)
    ELSE LET s == ReadFixed(l.rest, FromLE(l.val)) IN
         IF IsUtf8(s.val) THEN s ELSE Read(FALSE, <<>>, buf)

ReadU64(buf) ==
    LET b == ReadFixed(buf, 8) IN
    IF ~b.ok THEN Read(FALSE, 0, buf) ELSE Read(TRUE, FromLE(b.val), b.rest)

DecodeError == [ok |-> FALSE, msg |-> NoMessage]

\* Decode that takes the first string for the name and the second for the uri
DecodeNameFirst(data) ==
    LET t == ReadEnum(data)
        m == ReadFixed(t.rest, PubkeyLen)
        r == ReadFixed(m.rest, PubkeyLen)
        n == ReadString(r.rest)
        u == ReadString(n.rest)
        s == ReadString(u.rest)
        c == ReadU64(s.rest)
    IN  IF ~(t.ok /\ m.ok /\ r.ok /\ n.ok /\ u.ok /\ s.ok /\ c.ok) THEN DecodeError
        ELSE IF Len(c.rest) # 0 THEN DecodeError
        ELSE [ok |-> TRUE,
              msg |-> Message(t.val, m.val, r.val, u.val, n.val, s.val, c.val)]

\* CrossChainMessage::try_from_slice(&data): the fields in declaration order, and
\* an error when bytes are left over
Decode(data) ==
    LET t == ReadEnum(data)
        m == ReadFixed(t.rest, PubkeyLen)
        r == ReadFixed(m.rest, PubkeyLen)
        u == ReadString(r.rest)
        n == ReadString(u.rest)
        s == ReadString(n.rest)
        c == ReadU64(s.rest)
    IN  IF ~t.ok THEN DecodeError
        ELSE IF ~m.ok THEN DecodeError
        ELSE IF ~r.ok THEN DecodeError
        ELSE IF ~u.ok THEN DecodeError
        ELSE IF ~n.ok THEN DecodeError
        ELSE IF ~s.ok THEN DecodeError
        ELSE IF ~c.ok THEN DecodeError
        ELSE IF Len(c.rest) # 0 THEN DecodeError
        ELSE [ok |-> TRUE,
              msg |-> Message(t.val, m.val, r.val, u.val, n.val, s.val, c.val)]

-----------------------------------------------------------------------------
(* Accounts *)

EmptyMap == [x \in {} |-> x]

Put(f, k, v) == [x \in DOMAIN f \cup {k} |-> IF x = k THEN v ELSE f[x]]

\* amount held by a token account; an account that does not exist holds nothing
Balance(ta, mint, holder) ==
    IF <<mint, holder>> \in DOMAIN ta THEN ta[<<mint, holder>>] ELSE 0

\* total_supply: u64, kept as its eight little-endian bytes
U64Zero == Rep(8, 0)

\* u64::checked_add(1): None when every byte is 0xff
RECURSIVE Inc(_)
Inc(b) ==
    IF Len(b) = 0 THEN <<>>
    ELSE IF b[1] = 255 THEN <<0>> \o Inc(Tail(b))
    ELSE <<b[1] + 1>> \o Tail(b)

\* CheckedAdd1 that wraps around at the maximum
CheckedAdd1Wrapping(b) == [ok |-> TRUE, val |-> Inc(b)]

\* CheckedAdd1 that reports success without adding
CheckedAdd1NoAdd(b) ==
    IF \A i \in 1..Len(b) : b[i] = 255 THEN [ok |-> FALSE, val |-> b]
    ELSE [ok |-> TRUE, val |-> b]

\* u64::checked_add(1) on the little-endian bytes of the counter
CheckedAdd1(b) ==
    IF \A i \in 1..Len(b) : b[i] = 255 THEN [ok |-> FALSE, val |-> b]
    ELSE [ok |-> TRUE, val |-> Inc(b)]

\* a freshly created (zeroed) NftInfo account
ZeroInfo ==
    [mint |-> ZeroKey, owner |-> ZeroKey, metadata_uri |-> <<>>, name |-> <<>>,
     symbol |-> <<>>, is_locked |-> FALSE, cross_chain_recipient |-> ZeroKey]

\* NftInfo::INIT_SPACE: mint, owner, the three strings with their length prefix at
\* max_len, is_locked, cross_chain_recipient, bump
InfoInitSpace ==
    PubkeyLen + PubkeyLen + (4 + MaxUriLen) + (4 + MaxNameLen) + (4 + MaxSymbolLen)
        + 1 + PubkeyLen + 1

\* serialized size of an NftInfo
InfoSize(info) ==
    PubkeyLen + PubkeyLen + (4 + Len(info.metadata_uri)) + (4 + Len(info.name))
        + (4 + Len(info.symbol)) + 1 + PubkeyLen + 1

\* the record of an instruction that returned Ok: the signer or recipient it
\* named, the mint whose accounts it used, its nonce, the inbound message type,
\* the invocation stack, the outbound message bytes
OpRec(op, who, mint, nonce, kind, stack, bytes) ==
    [op |-> op, who |-> who, mint |-> mint, nonce |-> nonce,
     kind |-> kind, stack |-> stack, message_bytes |-> bytes]

NoOp == OpRec("none", ZeroKey, ZeroKey, 0, "-", <<>>, <<>>)

NoCodec == [pc |-> "idle", msg |-> NoMessage, bytes |-> <<>>, out |-> DecodeError]

Init ==
    /\ nft_program = [exists |-> FALSE, authority |-> ZeroKey, gateway |-> ZeroKey,
                      total_supply |-> U64Zero, nonce |-> 0]
    /\ nft_info = EmptyMap
    /\ mint_supply = EmptyMap
    /\ token_accounts = EmptyMap
    /\ metadata = EmptyMap
    /\ lastOp = NoOp
    /\ codec = NoCodec

\* a failed instruction that keeps the nonce it had already written
FailedKeepingNonce ==
    /\ nft_program' = [nft_program EXCEPT !.nonce = IF @ < MaxNonce THEN @ + 1 ELSE @]
    /\ UNCHANGED <<nft_info, mint_supply, token_accounts, metadata, lastOp, codec>>

\* an instruction that returned an error: every account is as it was
Failed == UNCHANGED vars

-----------------------------------------------------------------------------
(* Inputs *)

Str(n, b) == Rep(n, b)

\* name, symbol, uri
MetaA == [name |-> <<65, 114, 116, 49>>, symbol |-> <<65, 82, 84>>,
          uri |-> <<105, 112, 102, 115, 58, 47, 47, 120>>]

MetaB == [name |-> <<65, 114, 116, 50>>, symbol |-> <<65, 82, 88>>,
          uri |-> <<105, 112, 102, 115, 58, 47, 47, 121>>]

OverName == [MetaA EXCEPT !.name = Str(MaxNameLen + 1, 78)]

OverSymbol == [MetaA EXCEPT !.symbol = Str(MaxSymbolLen + 1, 83)]

OverUri == [MetaA EXCEPT !.uri = Str(MaxUriLen + 1, 85)]

MintMetas == {MetaA, OverName, OverSymbol, OverUri}

\* signer of initialize
Authorities == {O1}

Gateways == {GATEWAY_ID, OTHER_PROGRAM}

Nonces == 0..MaxNonce

Recipients32 == {ZeroKey, RemoteR}

-----------------------------------------------------------------------------
(* initialize *)

\* InitializeResult that lets the account be created again
InitializeResultAgain == "Ok"

\* Initialize: init fails when the nft_program account exists
InitializeResult ==
    IF nft_program.exists THEN "AccountAlreadyInUse" ELSE "Ok"

initialize(authority, gateway) ==
    LET rec == OpRec("initialize", authority, ZeroKey, 0, "-", <<>>, <<>>) IN
    IF InitializeResult # "Ok" THEN Failed
    ELSE /\ nft_program' = [exists |-> TRUE, authority |-> authority, gateway |-> gateway,
                            total_supply |-> U64Zero, nonce |-> 0]
         /\ lastOp' = rec
         /\ UNCHANGED <<nft_info, mint_supply, token_accounts, metadata, codec>>

-----------------------------------------------------------------------------
(* mint_nft *)

MintNftResult(mint, meta) ==
    IF ~nft_program.exists THEN "AccountNotInitialized"
    ELSE IF mint \in DOMAIN mint_supply \/ mint \in DOMAIN nft_info THEN "AccountAlreadyInUse"
    ELSE IF Len(meta.name) > MaxNameLen THEN "InvalidMetadata"
    ELSE IF Len(meta.symbol) > MaxSymbolLen THEN "InvalidMetadata"
    ELSE IF Len(meta.uri) > MaxUriLen THEN "InvalidMetadata"
    ELSE IF ~CheckedAdd1(nft_program.total_supply).ok THEN "Overflow"
    ELSE "Ok"

mint_nft(mint, meta, recipient) ==
    LET res == MintNftResult(mint, meta)
        rec == OpRec("mint_nft", recipient, mint, 0, "-", <<>>, <<>>)
    IN  IF res # "Ok" THEN Failed
        ELSE /\ mint_supply' = Put(mint_supply, mint, 1)
             /\ token_accounts' = Put(token_accounts, <<mint, recipient>>, 1)
             /\ metadata' = Put(metadata, mint, meta)
             /\ nft_program' = [nft_program EXCEPT
                                  !.total_supply = CheckedAdd1(@).val]
             /\ nft_info' = Put(nft_info, mint,
                                [ZeroInfo EXCEPT !.mint = mint, !.owner = recipient,
                                                 !.metadata_uri = meta.uri,
                                                 !.name = meta.name,
                                                 !.symbol = meta.symbol,
                                                 !.is_locked = FALSE])
             /\ lastOp' = rec
             /\ UNCHANGED codec

-----------------------------------------------------------------------------
(* transfer_to_zetachain *)

\* TransferResult with the nonce compared by >= : the nonce in use is accepted again
TransferResultStaleNonce(owner, mint, nonce) ==
    IF ~nft_program.exists THEN "AccountNotInitialized"
    ELSE IF mint \notin DOMAIN nft_info THEN "AccountNotInitialized"
    ELSE IF <<mint, owner>> \notin DOMAIN token_accounts THEN "AccountNotInitialized"
    ELSE IF nft_info[mint].owner # owner THEN "ConstraintRaw"
    ELSE IF ~(~nft_info[mint].is_locked) THEN "TokenLocked"
    ELSE IF ~(nonce >= nft_program.nonce) THEN "InvalidNonce"
    ELSE IF token_accounts[<<mint, owner>>] < 1 THEN "InsufficientFunds"
    ELSE "Ok"

\* TransferResult without the lock check
TransferResultIgnoreLock(owner, mint, nonce) ==
    IF ~nft_program.exists THEN "AccountNotInitialized"
    ELSE IF mint \notin DOMAIN nft_info THEN "AccountNotInitialized"
    ELSE IF <<mint, owner>> \notin DOMAIN token_accounts THEN "AccountNotInitialized"
    ELSE IF nft_info[mint].owner # owner THEN "ConstraintRaw"
    ELSE IF ~(nonce > nft_program.nonce) THEN "InvalidNonce"
    ELSE IF token_accounts[<<mint, owner>>] < 1 THEN "InsufficientFunds"
    ELSE "Ok"

\* TransferResult with one lock shared by all assets: refused while any record
\* is locked
TransferResultSharedLock(owner, mint, nonce) ==
    IF ~nft_program.exists THEN "AccountNotInitialized"
    ELSE IF mint \notin DOMAIN nft_info THEN "AccountNotInitialized"
    ELSE IF <<mint, owner>> \notin DOMAIN token_accounts THEN "AccountNotInitialized"
    ELSE IF nft_info[mint].owner # owner THEN "ConstraintRaw"
    ELSE IF \E m \in DOMAIN nft_info : nft_info[m].is_locked THEN "TokenLocked"
    ELSE IF ~(nonce > nft_program.nonce) THEN "InvalidNonce"
    ELSE IF token_accounts[<<mint, owner>>] < 1 THEN "InsufficientFunds"
    ELSE "Ok"

\* the accounts of TransferToZetachain, then the handler's checks in their order
TransferResult(owner, mint, nonce) ==
    IF ~nft_program.exists THEN "AccountNotInitialized"
    ELSE IF mint \notin DOMAIN nft_info THEN "AccountNotInitialized"
    ELSE IF <<mint, owner>> \notin DOMAIN token_accounts THEN "AccountNotInitialized"
    ELSE IF nft_info[mint].owner # owner THEN "ConstraintRaw"
    ELSE IF ~(nft_info[mint].owner = owner) THEN "Unauthorized"
    ELSE IF ~(~nft_info[mint].is_locked) THEN "TokenLocked"
    ELSE IF ~(nonce > nft_program.nonce) THEN "InvalidNonce"
    ELSE IF token_accounts[<<mint, owner>>] < 1 THEN "InsufficientFunds"
    ELSE "Ok"

\* TransferMessage with the name and the symbol of the record exchanged
TransferMessageSwapped(info, recipient, nonce) ==
    Message("Transfer", info.mint, recipient, info.metadata_uri, info.symbol,
            info.name, nonce)

\* the CrossChainMessage built from the locked record
TransferMessage(info, recipient, nonce) ==
    Message("Transfer", info.mint, recipient, info.metadata_uri, info.name,
            info.symbol, nonce)

\* transfer_to_zetachain that takes the unit from the owner without putting it
\* in custody
transfer_to_zetachain_burning(owner, mint, destination_chain_id, recipient, nonce) ==
    LET res == TransferResult(owner, mint, nonce) IN
    IF res # "Ok" THEN Failed
    ELSE /\ token_accounts' =
               Put(Put(token_accounts, <<mint, owner>>, token_accounts[<<mint, owner>>] - 1),
                   <<mint, NFT_PROGRAM_PDA>>,
                   Balance(token_accounts, mint, NFT_PROGRAM_PDA))
         /\ nft_info' = [nft_info EXCEPT ![mint].is_locked = TRUE,
                                         ![mint].cross_chain_recipient = recipient]
         /\ nft_program' = [nft_program EXCEPT !.nonce = nonce]
         /\ lastOp' = OpRec("transfer_to_zetachain", owner, mint, nonce, "-", <<>>,
                            Encode(TransferMessage(nft_info'[mint], recipient, nonce)))
         /\ UNCHANGED <<mint_supply, metadata, codec>>

transfer_to_zetachain(owner, mint, destination_chain_id, recipient, nonce) ==
    LET res == TransferResult(owner, mint, nonce) IN
    IF res # "Ok" THEN Failed
    ELSE /\ token_accounts' =
               Put(Put(token_accounts, <<mint, owner>>, token_accounts[<<mint, owner>>] - 1),
                   <<mint, NFT_PROGRAM_PDA>>,
                   Balance(token_accounts, mint, NFT_PROGRAM_PDA) + 1)
         /\ nft_info' = [nft_info EXCEPT ![mint].is_locked = TRUE,
                                         ![mint].cross_chain_recipient = recipient]
         /\ nft_program' = [nft_program EXCEPT !.nonce = nonce]
         /\ lastOp' = OpRec("transfer_to_zetachain", owner, mint, nonce, "-", <<>>,
                            Encode(TransferMessage(nft_info'[mint], recipient, nonce)))
         /\ UNCHANGED <<mint_supply, metadata, codec>>

-----------------------------------------------------------------------------
(* unlock_nft *)

\* UnlockResult without the nonce check
UnlockResultAnyNonce(owner, mint, nonce) ==
    IF ~nft_program.exists THEN "AccountNotInitialized"
    ELSE IF mint \notin DOMAIN nft_info THEN "AccountNotInitialized"
    ELSE IF <<mint, owner>> \notin DOMAIN token_accounts THEN "AccountNotInitialized"
    ELSE IF <<mint, NFT_PROGRAM_PDA>> \notin DOMAIN token_accounts THEN "AccountNotInitialized"
    ELSE IF nft_info[mint].owner # owner THEN "ConstraintRaw"
    ELSE IF ~nft_info[mint].is_locked THEN "TokenNotLocked"
    ELSE IF token_accounts[<<mint, NFT_PROGRAM_PDA>>] < 1 THEN "InsufficientFunds"
    ELSE "Ok"

\* the accounts of UnlockNft, then the handler's checks in their order
UnlockResult(owner, mint, nonce) ==
    IF ~nft_program.exists THEN "AccountNotInitialized"
    ELSE IF mint \notin DOMAIN nft_info THEN "AccountNotInitialized"
    ELSE IF <<mint, owner>> \notin DOMAIN token_accounts THEN "AccountNotInitialized"
    ELSE IF <<mint, NFT_PROGRAM_PDA>> \notin DOMAIN token_accounts THEN "AccountNotInitialized"
    ELSE IF nft_info[mint].owner # owner THEN "ConstraintRaw"
    ELSE IF ~nft_info[mint].is_locked THEN "TokenNotLocked"
    ELSE IF ~(nonce > nft_program.nonce) THEN "InvalidNonce"
    ELSE IF token_accounts[<<mint, NFT_PROGRAM_PDA>>] < 1 THEN "InsufficientFunds"
    ELSE "Ok"

unlock_nft(owner, mint, nonce) ==
    LET res == UnlockResult(owner, mint, nonce)
        rec == OpRec("unlock_nft", owner, mint, nonce, "-", <<>>, <<>>)
    IN  IF res # "Ok" THEN Failed
        ELSE /\ token_accounts' =
                   [token_accounts EXCEPT ![<<mint, NFT_PROGRAM_PDA>>] = @ - 1,
                                          ![<<mint, owner>>] = @ + 1]
             /\ nft_info' = [nft_info EXCEPT ![mint].is_locked = FALSE]
             /\ nft_program' = [nft_program EXCEPT !.nonce = nonce]
             /\ lastOp' = rec
             /\ UNCHANGED <<mint_supply, metadata, codec>>

-----------------------------------------------------------------------------
(* Inbound payloads *)

MessageMints == {M1}

TransferSamples ==
    {Message("Transfer", m, r, meta.uri, meta.name, meta.symbol, n) :
        m \in MessageMints, r \in Users, meta \in {MetaA, MetaB}, n \in Nonces}

UnlockSamples ==
    {Message("Unlock", m, ZeroKey, MetaA.uri, MetaA.name, MetaA.symbol, n) :
        m \in MessageMints, n \in Nonces}

\* payloads that are no CrossChainMessage: an unknown type tag, a truncated
\* buffer, a byte left over, a length prefix past the end of the buffer
GoodBytes == Encode(Message("Unlock", M1, ZeroKey, MetaA.uri, MetaA.name, MetaA.symbol, MaxNonce))

MalformedSamples ==
    { [GoodBytes EXCEPT ![1] = 2],
      SubSeq(GoodBytes, 1, Len(GoodBytes) - 1),
      GoodBytes \o <<0>>,
      [GoodBytes EXCEPT ![2 * PubkeyLen + 2] = 255] }

OnCallData == {Encode(m) : m \in TransferSamples \cup UnlockSamples} \cup MalformedSamples

Amounts == {0}

Senders == {Rep(SenderLen, 0)}

\* Decode over the sampled payloads, computed once
DecodeTable == [d \in OnCallData |-> Decode(d)]

\* CrossChainMessage::try_from_slice
TryFromSlice(data) == IF data \in DOMAIN DecodeTable THEN DecodeTable[data] ELSE Decode(data)

\* the chain of programs from the transaction's top-level instruction down to
\* this program: invoked directly, by the gateway, by another program, and by
\* another program that the gateway invoked
OnCallStacks ==
    { <<PROGRAM_ID>>, <<GATEWAY_ID, PROGRAM_ID>>, <<OTHER_PROGRAM, PROGRAM_ID>>,
      <<GATEWAY_ID, OTHER_PROGRAM, PROGRAM_ID>> }

\* get_instruction_relative(0, ..).program_id: the program of the transaction's
\* top-level instruction that is executing
CurrentIxProgram(stack) == stack[1]

\* the program that invoked this one (the zero key when a wallet did)
ImmediateCaller(stack) == IF Len(stack) >= 2 THEN stack[Len(stack) - 1] ELSE ZeroKey

-----------------------------------------------------------------------------
(* handle_cross_chain_call *)

HandleResult(message, nonce) ==
    IF ~nft_program.exists THEN "AccountNotInitialized"
    ELSE IF ~(nonce > nft_program.nonce) THEN "InvalidNonce"
    ELSE IF ~TryFromSlice(message).ok THEN "InvalidMessage"
    ELSE "Ok"

handle_cross_chain_call(sender, source_chain_id, message, nonce) ==
    LET res == HandleResult(message, nonce)
        rec == OpRec("handle_cross_chain_call", ZeroKey, ZeroKey, nonce, "-", <<>>, <<>>)
    IN  IF res # "Ok" THEN Failed
        ELSE /\ nft_program' = [nft_program EXCEPT !.nonce = nonce]
             /\ lastOp' = rec
             /\ UNCHANGED <<nft_info, mint_supply, token_accounts, metadata, codec>>

-----------------------------------------------------------------------------
(* on_call *)

\* #[instruction(mint_key: Pubkey)]: the first 32 bytes of the instruction's
\* arguments, which are _amount: u64, _sender: [u8; 20], data: Vec<u8>
MintKeyArg(amount, sender, data) ==
    SubSeq(ToLE(amount, 8) \o sender \o ToLE(Len(data), 4) \o data, 1, PubkeyLen)

\* the nft_info account of OnCall: created zeroed when it does not exist
InfoOrZero(mint) == IF mint \in DOMAIN nft_info THEN nft_info[mint] ELSE ZeroInfo

\* the gateway guard, the decoding and the nonce check
OnCallGuard(stack, data) ==
    IF ~nft_program.exists THEN "AccountNotInitialized"
    ELSE IF ~(CurrentIxProgram(stack) = GATEWAY_ID) THEN "Unauthorized"
    ELSE IF ~TryFromSlice(data).ok THEN "InvalidMessage"
    ELSE IF ~(TryFromSlice(data).msg.nonce > nft_program.nonce) THEN "InvalidNonce"
    ELSE "Ok"

\* the NftInfo an inbound Transfer writes
TransferInfo(mint, msg) ==
    [InfoOrZero(mint) EXCEPT !.mint = mint, !.owner = msg.recipient,
                             !.metadata_uri = msg.metadata_uri, !.name = msg.name,
                             !.symbol = msg.symbol, !.is_locked = FALSE,
                             !.cross_chain_recipient = ZeroKey]

\* the DataV2 that create_metadata_accounts_v3 is called with is one the token
\* metadata program accepts: it refuses a name, symbol or uri over its limit
DataV2Accepted(msg) ==
    /\ Len(msg.name) <= MaxNameLen
    /\ Len(msg.symbol) <= MaxSymbolLen
    /\ Len(msg.metadata_uri) <= MaxUriLen

\* MessageType::Transfer, with recipient_token_account = to
OnCallTransferResult(mint, msg, to) ==
    IF to \notin DOMAIN token_accounts /\ to # <<mint, msg.recipient>> THEN "InvalidSeeds"
    ELSE IF to[1] # mint THEN "MintMismatch"
    ELSE IF mint \notin DOMAIN metadata /\ ~DataV2Accepted(msg) THEN "MetadataRejected"
    ELSE IF ~CheckedAdd1(nft_program.total_supply).ok THEN "Overflow"
    ELSE IF InfoSize(TransferInfo(mint, msg)) > InfoInitSpace THEN "AccountDidNotSerialize"
    ELSE "Ok"

\* OnCallUnlockResult without the lock check
OnCallUnlockResultAnyLockState(mint, from, to) ==
    IF from \notin DOMAIN token_accounts /\ from # <<mint, NFT_PROGRAM_PDA>>
         THEN "InvalidSeeds"
    ELSE IF to \notin DOMAIN token_accounts /\ to # <<mint, InfoOrZero(mint).owner>>
         THEN "InvalidSeeds"
    ELSE IF from[1] # to[1] THEN "MintMismatch"
    ELSE IF from[2] # NFT_PROGRAM_PDA THEN "OwnerMismatch"
    ELSE IF Balance(token_accounts, from[1], from[2]) < 1 THEN "InsufficientFunds"
    ELSE "Ok"

\* MessageType::Unlock, with program_token_account = from and
\* owner_token_account = to
OnCallUnlockResult(mint, from, to) ==
    IF ~InfoOrZero(mint).is_locked THEN "TokenNotLocked"
    ELSE IF from \notin DOMAIN token_accounts /\ from # <<mint, NFT_PROGRAM_PDA>>
         THEN "InvalidSeeds"
    ELSE IF to \notin DOMAIN token_accounts /\ to # <<mint, InfoOrZero(mint).owner>>
         THEN "InvalidSeeds"
    ELSE IF from[1] # to[1] THEN "MintMismatch"
    ELSE IF from[2] # NFT_PROGRAM_PDA THEN "OwnerMismatch"
    ELSE IF Balance(token_accounts, from[1], from[2]) < 1 THEN "InsufficientFunds"
    ELSE "Ok"

\* the token accounts a caller can pass for the mint: those that exist, and the
\* associated token accounts of the mint that do not exist yet
TokenAddrs(mint) == DOMAIN token_accounts \cup ({mint} \X Holders)

on_call_transfer(rec, mint, msg, to) ==
    LET res == OnCallTransferResult(mint, msg, to) IN
    IF res # "Ok" THEN Failed
    ELSE /\ (IF mint \in DOMAIN mint_supply THEN mint_supply[mint] ELSE 0) < MaxUnits
         /\ mint_supply' = Put(mint_supply, mint,
                               (IF mint \in DOMAIN mint_supply THEN mint_supply[mint] ELSE 0) + 1)
         /\ token_accounts' = Put(token_accounts, to, Balance(token_accounts, to[1], to[2]) + 1)
         /\ metadata' = IF mint \in DOMAIN metadata THEN metadata
                        ELSE Put(metadata, mint,
                                 [name |-> msg.name, symbol |-> msg.symbol,
                                  uri |-> msg.metadata_uri])
         /\ nft_info' = Put(nft_info, mint, TransferInfo(mint, msg))
         /\ nft_program' = [nft_program EXCEPT !.nonce = msg.nonce,
                                               !.total_supply = CheckedAdd1(@).val]
         /\ lastOp' = rec
         /\ UNCHANGED codec

on_call_unlock(rec, mint, msg, from, to) ==
    LET res == OnCallUnlockResult(mint, from, to)
        created == Put(Put(token_accounts, from, Balance(token_accounts, from[1], from[2])),
                       to, Balance(token_accounts, to[1], to[2]))
        debited == [created EXCEPT ![from] = @ - 1]
    IN  IF res # "Ok" THEN Failed
        ELSE /\ token_accounts' = [debited EXCEPT ![to] = @ + 1]
             /\ nft_info' = [nft_info EXCEPT ![mint].is_locked = FALSE,
                                             ![mint].cross_chain_recipient = ZeroKey]
             /\ nft_program' = [nft_program EXCEPT !.nonce = msg.nonce]
             /\ lastOp' = rec
             /\ UNCHANGED <<mint_supply, metadata, codec>>

on_call(stack, amount, sender, data) ==
    LET mint == MintPda(MintKeyArg(amount, sender, data))
        guard == OnCallGuard(stack, data)
        d == TryFromSlice(data)
        rec == OpRec("on_call",
                     IF d.msg.message_type = "Transfer" THEN d.msg.recipient ELSE ZeroKey,
                     mint, d.msg.nonce, d.msg.message_type, stack, <<>>)
    IN  IF guard # "Ok" THEN Failed
        ELSE IF d.msg.message_type = "Transfer"
             THEN \E to \in TokenAddrs(mint) : on_call_transfer(rec, mint, d.msg, to)
             ELSE \E from \in TokenAddrs(mint), to \in TokenAddrs(mint) :
                      on_call_unlock(rec, mint, d.msg, from, to)

\* what on_call returns for a payload that carries an Unlock message
OnCallUnlockOutcome(stack, amount, sender, data, from, to) ==
    IF OnCallGuard(stack, data) # "Ok" THEN OnCallGuard(stack, data)
    ELSE OnCallUnlockResult(MintPda(MintKeyArg(amount, sender, data)), from, to)

-----------------------------------------------------------------------------
(* The program *)

Next ==
    \/ \E a \in Authorities, g \in Gateways : initialize(a, g)
    \/ \E m \in KeypairMints, meta \in MintMetas, r \in Users : mint_nft(m, meta, r)
    \/ \E o \in Users, m \in DOMAIN nft_info \cup KeypairMints, r \in Recipients32, n \in Nonces :
           transfer_to_zetachain(o, m, 7, r, n)
    \/ \E o \in Users, m \in DOMAIN nft_info \cup KeypairMints, n \in Nonces : unlock_nft(o, m, n)
    \/ \E message \in {GoodBytes} \cup MalformedSamples, n \in Nonces :
           handle_cross_chain_call(ZeroKey, 7, message, n)
    \/ \E stack \in OnCallStacks, amount \in Amounts, sender \in Senders, data \in OnCallData :
           on_call(stack, amount, sender, data)

Spec == Init /\ [][Next]_vars

-----------------------------------------------------------------------------
(* The codec alone: one message encoded, then decoded *)

CodecMints == {M1, MintPda(MintKeyArg(0, Rep(SenderLen, 0), GoodBytes))}

CodecUris == {<<>>, MetaA.uri, Str(MaxUriLen, 117)}

\* the empty name, "Art1", a two-byte UTF-8 character, a name of the full length
CodecNames == {<<>>, MetaA.name, <<195, 169>>, Str(MaxNameLen, 110)}

CodecSymbols == {<<>>, MetaA.symbol, Str(MaxSymbolLen, 115)}

CodecNonces == {0, 1, 258, 70000}

CodecMessages ==
    {Message(t, m, r, u, n, s, c) :
        t \in {"Transfer", "Unlock"}, m \in CodecMints, r \in Recipients32,
        u \in CodecUris, n \in CodecNames, s \in CodecSymbols, c \in CodecNonces}

CodecInit ==
    /\ nft_program = [exists |-> FALSE, authority |-> ZeroKey, gateway |-> ZeroKey,
                      total_supply |-> U64Zero, nonce |-> 0]
    /\ nft_info = EmptyMap
    /\ mint_supply = EmptyMap
    /\ token_accounts = EmptyMap
    /\ metadata = EmptyMap
    /\ lastOp = NoOp
    /\ \E m \in CodecMessages : codec = [NoCodec EXCEPT !.pc = "start", !.msg = m]

CodecEncode ==
    /\ codec.pc = "start"
    /\ codec' = [codec EXCEPT !.pc = "encoded", !.bytes = Encode(codec.msg)]
    /\ UNCHANGED <<ledger, lastOp>>

CodecDecode ==
    /\ codec.pc = "encoded"
    /\ codec' = [codec EXCEPT !.pc = "decoded", !.out = Decode(codec.bytes)]
    /\ UNCHANGED <<ledger, lastOp>>

CodecNext == CodecEncode \/ CodecDecode

SpecCodec == CodecInit /\ [][CodecNext]_vars

-----------------------------------------------------------------------------
(* Properties *)

\* the instructions that carry a nonce
NonceOps == {"transfer_to_zetachain", "unlock_nft", "handle_cross_chain_call", "on_call"}

\* a step in which an instruction returned Ok: every such step changes an account
Accepted == ledger' # ledger

\* C1: the stored nonce never decreases; every accepted nonce-carrying
\* instruction has a nonce strictly greater than the stored nonce at the time it
\* is validated and leaves the stored nonce equal to its own, and nothing else
\* changes the stored nonce: no two accepted instructions carry the same nonce.
C1_NonceStrictlyIncreasing ==
    [][ /\ nft_program'.nonce >= nft_program.nonce
        /\ (Accepted /\ lastOp'.op \in NonceOps) =>
               /\ lastOp'.nonce > nft_program.nonce
               /\ nft_program'.nonce = lastOp'.nonce
        /\ (nft_program.exists /\ nft_program'.nonce # nft_program.nonce) =>
               lastOp'.op \in NonceOps ]_vars

\* three nonce-carrying instructions were accepted, the last an inbound call
C1_Witness ==
    /\ lastOp.op = "on_call"
    /\ lastOp.nonce = 3
    /\ nft_program.nonce = 3
    /\ \E m \in DOMAIN nft_info : ~nft_info[m].is_locked /\ nft_info[m].cross_chain_recipient = ZeroKey
                                  /\ Balance(token_accounts, m, NFT_PROGRAM_PDA) = 0
                                  /\ lastOp.kind = "Unlock" /\ lastOp.mint = m

-----------------------------------------------------------------------------
(* Stale nonces *)

\* the nonces that are not greater than the stored one
StaleNonces == {n \in Nonces : n <= nft_program.nonce}

\* the payloads whose message carries a stale nonce
StaleData == {d \in OnCallData : TryFromSlice(d).ok /\ TryFromSlice(d).msg.nonce <= nft_program.nonce}

\* the mints an instruction can name
Mints == DOMAIN nft_info \cup KeypairMints

\* the signer is the recorded owner of an asset whose accounts all exist
OwnerCalls(o, m) ==
    /\ nft_program.exists
    /\ m \in DOMAIN nft_info
    /\ nft_info[m].owner = o
    /\ <<m, o>> \in DOMAIN token_accounts
    /\ <<m, NFT_PROGRAM_PDA>> \in DOMAIN token_accounts

\* C2 as stated: a nonce-carrying instruction submitted by the asset's owner
\* (by the gateway for on_call) with nonce <= the stored nonce fails with
\* InvalidNonce whatever the lock state of the asset.
C2_StaleNonceAlwaysInvalidNonce ==
    /\ \A o \in Users, m \in Mints, n \in StaleNonces :
           OwnerCalls(o, m) =>
               /\ TransferResult(o, m, n) = "InvalidNonce"
               /\ UnlockResult(o, m, n) = "InvalidNonce"
    /\ \A d \in StaleData :
           nft_program.exists => OnCallGuard(<<GATEWAY_ID, PROGRAM_ID>>, d) = "InvalidNonce"

\* C2 (amended): a nonce-carrying instruction submitted with nonce <= the
\* stored nonce never succeeds and changes no account; the error is InvalidNonce
\* exactly when the checks that come before the nonce check pass (the owner
\* locking an unlocked asset, the owner unlocking a locked asset, the gateway
\* delivering a decodable payload), and the error of the earlier check otherwise.
C2_StaleNonceRejected ==
    /\ \A o \in Users, m \in Mints, n \in StaleNonces :
           /\ TransferResult(o, m, n) # "Ok"
           /\ UnlockResult(o, m, n) # "Ok"
           /\ (TransferResult(o, m, n) = "InvalidNonce") <=>
                  (nft_program.exists /\ m \in DOMAIN nft_info
                   /\ <<m, o>> \in DOMAIN token_accounts
                   /\ nft_info[m].owner = o /\ ~nft_info[m].is_locked)
           /\ (UnlockResult(o, m, n) = "InvalidNonce") <=>
                  (OwnerCalls(o, m) /\ nft_info[m].is_locked)
           /\ \A r \in Recipients32 :
                  ~ENABLED (transfer_to_zetachain(o, m, 7, r, n) /\ ledger' # ledger)
           /\ ~ENABLED (unlock_nft(o, m, n) /\ ledger' # ledger)
    /\ \A d \in StaleData, stack \in OnCallStacks :
           /\ OnCallGuard(stack, d) # "Ok"
           /\ (OnCallGuard(stack, d) = "InvalidNonce") <=>
                  (nft_program.exists /\ CurrentIxProgram(stack) = GATEWAY_ID)
           /\ \A amount \in Amounts, sender \in Senders :
                  ~ENABLED (on_call(stack, amount, sender, d) /\ ledger' # ledger)

\* an asset is locked under nonce 2: the owner's lock with the nonce in use is
\* refused with TokenLocked, the owner's unlock and the gateway's delivery with
\* that nonce with InvalidNonce
C2_Witness ==
    /\ nft_program.nonce = 2
    /\ lastOp.op = "transfer_to_zetachain"
    /\ lastOp.nonce = 2
    /\ nft_info[lastOp.mint].is_locked
    /\ TransferResult(lastOp.who, lastOp.mint, 2) = "TokenLocked"
    /\ UnlockResult(lastOp.who, lastOp.mint, 2) = "InvalidNonce"
    /\ \E d \in StaleData : /\ TryFromSlice(d).msg.nonce = 2
                            /\ OnCallGuard(<<GATEWAY_ID, PROGRAM_ID>>, d) = "InvalidNonce"

-----------------------------------------------------------------------------
(* Lock and unlock exclude each other *)

\* the assets whose record is locked, and those whose record is not
LockedMints == {m \in DOMAIN nft_info : nft_info[m].is_locked}

UnlockedMints == {m \in DOMAIN nft_info : ~nft_info[m].is_locked}

UnlockData == {d \in OnCallData : TryFromSlice(d).ok /\ TryFromSlice(d).msg.message_type = "Unlock"}

-----------------------------------------------------------------------------
(* The recipient field and the lock *)

\* C5: in every reachable state and for every NftInfo, cross_chain_recipient is
\* non-zero if and only if is_locked is true.
C5_RecipientIffLocked ==
    \A m \in DOMAIN nft_info :
        (nft_info[m].cross_chain_recipient # ZeroKey) <=> nft_info[m].is_locked

-----------------------------------------------------------------------------
(* Lock, then unlock *)

\* the step is an accepted unlock, by unlock_nft or by an inbound Unlock
UnlockStep ==
    /\ Accepted
    /\ \/ lastOp'.op = "unlock_nft"
       \/ lastOp'.op = "on_call" /\ lastOp'.kind = "Unlock"

\* C6: transfer_to_zetachain keeps the record's owner, name, symbol and
\* metadata_uri, and an unlock (unlock_nft or an inbound Unlock) that directly
\* follows the lock of the same asset leaves the record with the same owner,
\* name, symbol and metadata_uri, is_locked = false, cross_chain_recipient equal
\* to 32 zero bytes, and the unit back in the owner's token account.
C6_LockUnlockRoundTrip ==
    [][ /\ (Accepted /\ lastOp'.op = "transfer_to_zetachain") =>
               LET m == lastOp'.mint IN
               /\ nft_info'[m].owner = nft_info[m].owner
               /\ nft_info'[m].name = nft_info[m].name
               /\ nft_info'[m].symbol = nft_info[m].symbol
               /\ nft_info'[m].metadata_uri = nft_info[m].metadata_uri
        /\ (UnlockStep /\ lastOp.op = "transfer_to_zetachain" /\ lastOp'.mint = lastOp.mint) =>
               LET m == lastOp.mint
                   o == nft_info[m].owner
               IN  /\ nft_info'[m].owner = o
                   /\ nft_info'[m].name = nft_info[m].name
                   /\ nft_info'[m].symbol = nft_info[m].symbol
                   /\ nft_info'[m].metadata_uri = nft_info[m].metadata_uri
                   /\ ~nft_info'[m].is_locked
                   /\ nft_info'[m].cross_chain_recipient = ZeroKey
                   /\ Balance(token_accounts', m, o) = Balance(token_accounts, m, o) + 1
                   /\ Balance(token_accounts', m, NFT_PROGRAM_PDA)
                          = Balance(token_accounts, m, NFT_PROGRAM_PDA) - 1 ]_vars

-----------------------------------------------------------------------------
(* Supply accounting *)

\* nft_program.total_supply as a number
Supply == FromLE(nft_program.total_supply)

RECURSIVE SumOver(_, _)
SumOver(f, S) ==
    IF S = {} THEN 0
    ELSE LET k == CHOOSE k \in S : TRUE IN f[k] + SumOver(f, S \ {k})

\* the units the token program has minted, over all mints
MintedUnits == SumOver(mint_supply, DOMAIN mint_supply)

\* the step is an accepted mint: mint_nft, or an inbound Transfer
MintStep ==
    /\ Accepted
    /\ \/ lastOp'.op = "mint_nft"
       \/ lastOp'.op = "on_call" /\ lastOp'.kind = "Transfer"

\* C7: total_supply never decreases; each successful mint_nft and each accepted
\* inbound Transfer adds exactly 1; every other step (transfer_to_zetachain,
\* unlock_nft, inbound Unlock, handle_cross_chain_call, any failed instruction)
\* leaves it unchanged; so it always equals the number of units minted, however
\* the mints are interleaved with locks and unlocks.
C7_SupplyAccounting ==
    /\ [](Supply = MintedUnits)
    /\ [][ /\ FromLE(nft_program'.total_supply) >= Supply
           /\ MintStep => FromLE(nft_program'.total_supply) = Supply + 1
           /\ ~MintStep => nft_program'.total_supply = nft_program.total_supply ]_vars

\* three units minted, one by mint_nft and two by inbound Transfers, with a
\* transfer_to_zetachain accepted before the last of them
C7_Witness ==
    /\ Supply = 3
    /\ lastOp.op = "on_call"
    /\ lastOp.kind = "Transfer"
    /\ M1 \in DOMAIN nft_info
    /\ \E m \in DOMAIN nft_info : nft_info[m].cross_chain_recipient # ZeroKey

-----------------------------------------------------------------------------
(* The message codec *)

\* the bytes of buf from position from, n of them
Slice(buf, from, n) == SubSeq(buf, from, from + n - 1)

\* C8: for every valid CrossChainMessage, with strings of the empty and of the
\* maximum length included, the encoding lays out the fields in the order
\* message_type, mint, recipient, metadata_uri, name, symbol, nonce, and decoding
\* the encoding succeeds and yields exactly the original message.
C8_RoundTrip ==
    /\ codec.pc \in {"encoded", "decoded"} =>
           LET m == codec.msg
               b == codec.bytes
               uriAt == 1 + PubkeyLen + PubkeyLen + 1
               nameAt == uriAt + 4 + Len(m.metadata_uri)
               symbolAt == nameAt + 4 + Len(m.name)
               nonceAt == symbolAt + 4 + Len(m.symbol)
           IN  /\ Len(b) = nonceAt + 7
               /\ MessageTypes[b[1] + 1] = m.message_type
               /\ Slice(b, 2, PubkeyLen) = m.mint
               /\ Slice(b, 2 + PubkeyLen, PubkeyLen) = m.recipient
               /\ FromLE(Slice(b, uriAt, 4)) = Len(m.metadata_uri)
               /\ Slice(b, uriAt + 4, Len(m.metadata_uri)) = m.metadata_uri
               /\ FromLE(Slice(b, nameAt, 4)) = Len(m.name)
               /\ Slice(b, nameAt + 4, Len(m.name)) = m.name
               /\ FromLE(Slice(b, symbolAt, 4)) = Len(m.symbol)
               /\ Slice(b, symbolAt + 4, Len(m.symbol)) = m.symbol
               /\ FromLE(Slice(b, nonceAt, 8)) = m.nonce
    /\ codec.pc = "decoded" => codec.out = [ok |-> TRUE, msg |-> codec.msg]

\* an Unlock message whose three strings have the maximum length, decoded
C8_Witness ==
    /\ codec.pc = "decoded"
    /\ codec.out.ok
    /\ codec.out.msg.message_type = "Unlock"
    /\ Len(codec.out.msg.metadata_uri) = MaxUriLen
    /\ Len(codec.out.msg.name) = MaxNameLen
    /\ Len(codec.out.msg.symbol) = MaxSymbolLen
    /\ codec.out.msg.nonce = 70000
    /\ Len(codec.bytes) = 1 + 2 * PubkeyLen + 12 + MaxUriLen + MaxNameLen + MaxSymbolLen + 8

-----------------------------------------------------------------------------
(* The gateway guard *)

\* the payloads that decode and carry a nonce greater than the stored one
FreshData == {d \in OnCallData : TryFromSlice(d).ok /\ TryFromSlice(d).msg.nonce > nft_program.nonce}

\* C9: whatever gateway was given to initialize, an on_call whose immediate
\* caller is not nft_program.gateway is refused with Unauthorized, also when the
\* payload decodes and its nonce is fresh, and no accepted on_call has an
\* immediate caller other than nft_program.gateway.
C9_ForgedCallerRejected ==
    /\ [](nft_program.exists =>
             \A stack \in OnCallStacks, d \in FreshData :
                 ImmediateCaller(stack) # nft_program.gateway =>
                     OnCallGuard(stack, d) = "Unauthorized")
    /\ [][ (Accepted /\ lastOp'.op = "on_call") =>
               ImmediateCaller(lastOp'.stack) = nft_program.gateway ]_vars

-----------------------------------------------------------------------------
(* Scenario: mint_nft, transfer_to_zetachain, inbound Unlock *)

\* the payloads that carry an Unlock message naming the mint
UnlockDataFor(m) == {d \in UnlockData : TryFromSlice(d).msg.mint = m}

\* C10: an asset created by mint_nft and just locked by its owner with nonce n1
\* can be released by an on_call of the gateway that carries an Unlock message
\* naming the asset with a nonce n2 > n1: the call is accepted and leaves the
\* record unlocked with the same owner and the stored nonce equal to n2; and
\* after an accepted on_call a payload with the same nonce is refused with
\* InvalidNonce.
C10_GatewayUnlockReleases ==
    /\ \A m \in KeypairMints \cap LockedMints :
           (/\ nft_program.gateway = GATEWAY_ID
            /\ lastOp.op = "transfer_to_zetachain"
            /\ lastOp.mint = m
            /\ lastOp.nonce < MaxNonce) =>
               ENABLED (\E d \in UnlockDataFor(m) \cap FreshData,
                           amount \in Amounts, sender \in Senders :
                           /\ on_call(<<GATEWAY_ID, PROGRAM_ID>>, amount, sender, d)
                           /\ ~nft_info'[m].is_locked
                           /\ nft_info'[m].owner = nft_info[m].owner
                           /\ nft_program'.nonce = TryFromSlice(d).msg.nonce)
    /\ lastOp.op = "on_call" =>
           \A d \in OnCallData :
               (TryFromSlice(d).ok /\ TryFromSlice(d).msg.nonce = lastOp.nonce) =>
                   OnCallGuard(lastOp.stack, d) = "InvalidNonce"

-----------------------------------------------------------------------------
(* The program with its counter near the end of the u64 range *)

\* u64::MAX and u64::MAX - 1 as little-endian bytes
U64Max == Rep(8, 255)

U64MaxLess1 == <<254>> \o Rep(7, 255)

\* the program after u64::MAX - 1 mints; the accounts of the assets minted
\* before are left out, as no instruction on the mints considered reads them
InitNearMax ==
    /\ \E g \in Gateways :
           nft_program = [exists |-> TRUE, authority |-> O1, gateway |-> g,
                          total_supply |-> U64MaxLess1, nonce |-> 0]
    /\ nft_info = EmptyMap
    /\ mint_supply = EmptyMap
    /\ token_accounts = EmptyMap
    /\ metadata = EmptyMap
    /\ lastOp = NoOp
    /\ codec = NoCodec

NextNearMax ==
    \/ \E m \in KeypairMints, meta \in MintMetas, r \in Users : mint_nft(m, meta, r)
    \/ \E o \in Users, m \in DOMAIN nft_info \cup KeypairMints, r \in Recipients32, n \in Nonces :
           transfer_to_zetachain(o, m, 7, r, n)
    \/ \E o \in Users, m \in DOMAIN nft_info \cup KeypairMints, n \in Nonces : unlock_nft(o, m, n)
    \/ \E message \in {GoodBytes} \cup MalformedSamples, n \in Nonces :
           handle_cross_chain_call(ZeroKey, 7, message, n)
    \/ \E stack \in OnCallStacks, amount \in Amounts, sender \in Senders, data \in OnCallData :
           on_call(stack, amount, sender, data)

SpecNearMax == InitNearMax /\ [][NextNearMax]_vars

-----------------------------------------------------------------------------
(* Errors change nothing *)

\* some on_call input that matches the record of the step is accepted in the
\* state before the step
OnCallAccepts(rec) ==
    \E d \in OnCallData :
        LET msg == TryFromSlice(d).msg IN
        /\ TryFromSlice(d).ok
        /\ msg.nonce = rec.nonce
        /\ msg.message_type = rec.kind
        /\ OnCallGuard(rec.stack, d) = "Ok"
        /\ IF rec.kind = "Transfer"
           THEN /\ msg.recipient = rec.who
                /\ \E to \in TokenAddrs(rec.mint) :
                       OnCallTransferResult(rec.mint, msg, to) = "Ok"
           ELSE \E from \in TokenAddrs(rec.mint), to \in TokenAddrs(rec.mint) :
                    OnCallUnlockResult(rec.mint, from, to) = "Ok"

\* the instruction that the step records returns Ok in the state before the step
StepReturnsOk ==
    LET rec == lastOp' IN
    CASE rec.op = "initialize" -> InitializeResult = "Ok"
      [] rec.op = "mint_nft" -> MintNftResult(rec.mint, metadata'[rec.mint]) = "Ok"
      [] rec.op = "transfer_to_zetachain" -> TransferResult(rec.who, rec.mint, rec.nonce) = "Ok"
      [] rec.op = "unlock_nft" -> UnlockResult(rec.who, rec.mint, rec.nonce) = "Ok"
      [] rec.op = "handle_cross_chain_call" ->
             \E message \in {GoodBytes} \cup MalformedSamples :
                 HandleResult(message, rec.nonce) = "Ok"
      [] rec.op = "on_call" -> OnCallAccepts(rec)
      [] OTHER -> FALSE

-----------------------------------------------------------------------------
(* initialize, once *)

\* the NftProgramState that initialize(authority, gateway) writes
Initialized(authority, gateway) ==
    [exists |-> TRUE, authority |-> authority, gateway |-> gateway,
     total_supply |-> U64Zero, nonce |-> 0]

\* C12: initialize succeeds at most once: while the account does not exist,
\* initialize(a, g) succeeds and writes authority = a, gateway = g,
\* total_supply = 0 and nonce = 0 and nothing else; once it exists every
\* initialize is refused and changes nothing, and no step changes authority or
\* gateway.
C12_InitializeOnce ==
    /\ [](\A a \in Authorities, g \in Gateways :
             /\ ~nft_program.exists =>
                    /\ InitializeResult = "Ok"
                    /\ ENABLED (initialize(a, g) /\ nft_program' = Initialized(a, g))
                    /\ ~ENABLED (initialize(a, g)
                                 /\ <<nft_program', nft_info', mint_supply', token_accounts',
                                      metadata'>>
                                        # <<Initialized(a, g), nft_info, mint_supply,
                                             token_accounts, metadata>>)
             /\ nft_program.exists =>
                    /\ InitializeResult # "Ok"
                    /\ ~ENABLED (initialize(a, g) /\ vars' # vars))
    /\ [][ /\ (lastOp'.op = "initialize" /\ lastOp' # lastOp) => ~nft_program.exists
           /\ nft_program.exists =>
                  /\ nft_program'.exists
                  /\ nft_program'.authority = nft_program.authority
                  /\ nft_program'.gateway = nft_program.gateway ]_vars

\* the program was initialized with the second gateway and has been used since:
\* a later initialize is refused
C12_Witness ==
    /\ nft_program.exists
    /\ nft_program.authority = O1
    /\ nft_program.gateway = OTHER_PROGRAM
    /\ nft_program.nonce > 0
    /\ nft_program.total_supply # U64Zero
    /\ lastOp.op # "initialize"
    /\ InitializeResult = "AccountAlreadyInUse"

-----------------------------------------------------------------------------
(* The counter at u64::MAX *)

\* a < b for numbers given as little-endian bytes of the same length
RECURSIVE LessLE(_, _)
LessLE(a, b) ==
    IF Len(a) = 0 THEN FALSE
    ELSE LET n == Len(a) IN
         IF a[n] # b[n] THEN a[n] < b[n]
         ELSE LessLE(SubSeq(a, 1, n - 1), SubSeq(b, 1, n - 1))

\* the payloads that carry a Transfer message
TransferData == {d \in OnCallData : TryFromSlice(d).ok /\ TryFromSlice(d).msg.message_type = "Transfer"}

\* C13: with total_supply at u64::MAX every mint_nft and every inbound Transfer
\* fails, with Overflow when the checks before the addition pass, and
\* total_supply keeps its value; in no step does total_supply become smaller.
C13_NoWrap ==
    /\ [](nft_program.total_supply = U64Max =>
             /\ \A m \in KeypairMints, meta \in MintMetas :
                    /\ MintNftResult(m, meta) # "Ok"
                    /\ (MintNftResult(m, meta) = "Overflow") <=>
                           /\ m \notin DOMAIN mint_supply \cup DOMAIN nft_info
                           /\ Len(meta.name) <= MaxNameLen
                           /\ Len(meta.symbol) <= MaxSymbolLen
                           /\ Len(meta.uri) <= MaxUriLen
             /\ \A d \in TransferData, amount \in Amounts, sender \in Senders :
                    LET mint == MintPda(MintKeyArg(amount, sender, d))
                        msg == TryFromSlice(d).msg
                    IN  \A to \in TokenAddrs(mint) :
                            /\ OnCallTransferResult(mint, msg, to) # "Ok"
                            /\ (OnCallTransferResult(mint, msg, to) = "Overflow") <=>
                                   /\ to[1] = mint
                                   /\ to \in DOMAIN token_accounts \/ to[2] = msg.recipient)
    /\ [][ /\ ~LessLE(nft_program'.total_supply, nft_program.total_supply)
           /\ nft_program.total_supply = U64Max => nft_program'.total_supply = U64Max
           /\ MintStep => nft_program.total_supply # U64Max ]_vars

\* the counter reached u64::MAX by an inbound Transfer: the next mint_nft and the
\* next inbound Transfer of the gateway fail with Overflow
C13_Witness ==
    /\ nft_program.total_supply = U64Max
    /\ lastOp.op = "on_call"
    /\ lastOp.kind = "Transfer"
    /\ MintNftResult(M1, MetaA) = "Overflow"
    /\ \E d \in TransferData \cap FreshData :
           /\ OnCallGuard(<<GATEWAY_ID, PROGRAM_ID>>, d) = "Ok"
           /\ OnCallTransferResult(lastOp.mint, TryFromSlice(d).msg,
                                   <<lastOp.mint, TryFromSlice(d).msg.recipient>>) = "Overflow"

-----------------------------------------------------------------------------
(* Inbound messages with attributes at and over the limits *)

\* attributes within the limits, and attributes with a name one byte over the
\* limit that encode to the same number of bytes, so that on_call derives the
\* same mint for both; attributes with a symbol one byte over the limit
PaddedMeta == [name |-> MetaA.name, symbol |-> MetaA.symbol,
               uri |-> MetaA.uri \o Str(MaxNameLen + 1 - Len(MetaA.name), 47)]

LongNameMeta == [name |-> Str(MaxNameLen + 1, 78), symbol |-> MetaA.symbol, uri |-> MetaA.uri]

LongSymbolMeta == [name |-> MetaA.name, symbol |-> Str(MaxSymbolLen + 1, 83), uri |-> MetaA.uri]

LengthMetas == {PaddedMeta, LongNameMeta, LongSymbolMeta}

LengthData ==
    {Encode(Message("Transfer", M1, r, meta.uri, meta.name, meta.symbol, n)) :
        r \in Users, meta \in LengthMetas, n \in Nonces}

NextLengths ==
    \/ \E a \in Authorities, g \in Gateways : initialize(a, g)
    \/ \E m \in KeypairMints, meta \in MintMetas, r \in Users : mint_nft(m, meta, r)
    \/ \E stack \in OnCallStacks, amount \in Amounts, sender \in Senders, data \in LengthData :
           on_call(stack, amount, sender, data)

SpecLengths == Init /\ [][NextLengths]_vars

\* the attributes of a record or a message are within the limits
WithinBounds(name, symbol, uri) ==
    /\ Len(name) <= MaxNameLen
    /\ Len(symbol) <= MaxSymbolLen
    /\ Len(uri) <= MaxUriLen

\* C14: in every reachable state every NftInfo has a name of at most 32 bytes, a
\* symbol of at most 10 bytes and a metadata_uri of at most 200 bytes; mint_nft
\* with an attribute over its limit fails with InvalidMetadata, and an inbound
\* Transfer whose message has an attribute over its limit is refused.
C14_RecordsWithinBounds ==
    /\ \A m \in DOMAIN nft_info :
           WithinBounds(nft_info[m].name, nft_info[m].symbol, nft_info[m].metadata_uri)
    /\ \A m \in KeypairMints, meta \in MintMetas :
           (nft_program.exists /\ m \notin DOMAIN mint_supply
            /\ ~WithinBounds(meta.name, meta.symbol, meta.uri)) =>
               MintNftResult(m, meta) = "InvalidMetadata"
    /\ \A d \in LengthData, amount \in Amounts, sender \in Senders :
           LET mint == MintPda(MintKeyArg(amount, sender, d))
               msg == Decode(d).msg
           IN  ~WithinBounds(msg.name, msg.symbol, msg.metadata_uri) =>
                   \A to \in TokenAddrs(mint) : OnCallTransferResult(mint, msg, to) # "Ok"

-----------------------------------------------------------------------------
(* The order of the checks of transfer_to_zetachain *)

\* C15: transfer_to_zetachain reports the first failing check in the order
\* signer = owner, not locked, nonce > stored nonce: a signer who is not the
\* owner gets Unauthorized also when the asset is locked or the nonce stale, the
\* owner gets TokenLocked on a locked asset also when the nonce is stale, and
\* InvalidNonce on an unlocked asset with a stale nonce.
C15_CheckOrder ==
    \A m \in DOMAIN nft_info, o \in Users, n \in Nonces :
        /\ nft_info[m].owner # o => TransferResult(o, m, n) = "Unauthorized"
        /\ (nft_info[m].owner = o /\ nft_info[m].is_locked) =>
               TransferResult(o, m, n) = "TokenLocked"
        /\ (nft_info[m].owner = o /\ ~nft_info[m].is_locked /\ n <= nft_program.nonce
            /\ <<m, o>> \in DOMAIN token_accounts) =>
               TransferResult(o, m, n) = "InvalidNonce"

-----------------------------------------------------------------------------
(* The effects of transfer_to_zetachain *)

\* what an accepted transfer_to_zetachain(owner, mint, _, recipient, nonce)
\* does: one unit from the owner's token account to the custody account, the
\* record locked for the recipient, the nonce stored, nothing else
TransferEffects(owner, mint, recipient, nonce) ==
    /\ Balance(token_accounts', mint, owner) = Balance(token_accounts, mint, owner) - 1
    /\ Balance(token_accounts', mint, NFT_PROGRAM_PDA)
           = Balance(token_accounts, mint, NFT_PROGRAM_PDA) + 1
    /\ DOMAIN token_accounts' = DOMAIN token_accounts \cup {<<mint, NFT_PROGRAM_PDA>>}
    /\ \A k \in DOMAIN token_accounts \ {<<mint, owner>>, <<mint, NFT_PROGRAM_PDA>>} :
           token_accounts'[k] = token_accounts[k]
    /\ DOMAIN nft_info' = DOMAIN nft_info
    /\ nft_info'[mint].is_locked
    /\ nft_info'[mint].cross_chain_recipient = recipient
    /\ nft_info'[mint].mint = nft_info[mint].mint
    /\ nft_info'[mint].owner = nft_info[mint].owner
    /\ nft_info'[mint].name = nft_info[mint].name
    /\ nft_info'[mint].symbol = nft_info[mint].symbol
    /\ nft_info'[mint].metadata_uri = nft_info[mint].metadata_uri
    /\ \A m \in DOMAIN nft_info \ {mint} : nft_info'[m] = nft_info[m]
    /\ nft_program'.nonce = nonce
    /\ nft_program'.total_supply = nft_program.total_supply
    /\ nft_program'.authority = nft_program.authority
    /\ nft_program'.gateway = nft_program.gateway
    /\ mint_supply' = mint_supply
    /\ metadata' = metadata

\* C16: a transfer_to_zetachain by the owner of an unlocked asset with a fresh
\* nonce succeeds, and in one step moves exactly one unit of the asset's token
\* from the owner's token account to the custody account, sets is_locked,
\* cross_chain_recipient = recipient and the stored nonce = nonce, and leaves the
\* record's owner, name, symbol and metadata_uri, total_supply and every other
\* record and balance unchanged.
C16_TransferEffects ==
    \A o \in Users, m \in Mints, r \in Recipients32, n \in Nonces :
        /\ (TransferResult(o, m, n) = "Ok") <=>
               /\ m \in DOMAIN nft_info
               /\ nft_info[m].owner = o
               /\ ~nft_info[m].is_locked
               /\ n > nft_program.nonce
               /\ Balance(token_accounts, m, o) >= 1
               /\ <<m, o>> \in DOMAIN token_accounts
        /\ TransferResult(o, m, n) = "Ok" =>
               /\ ENABLED (transfer_to_zetachain(o, m, 7, r, n) /\ vars' # vars)
               /\ ~ENABLED (transfer_to_zetachain(o, m, 7, r, n) /\ ~TransferEffects(o, m, r, n))

\* an asset locked for a remote recipient by its owner, its unit in custody,
\* next to a second asset that is not locked
C16_Witness ==
    /\ lastOp.op = "transfer_to_zetachain"
    /\ lastOp.mint \in LockedMints
    /\ nft_info[lastOp.mint].owner = lastOp.who
    /\ nft_info[lastOp.mint].cross_chain_recipient = RemoteR
    /\ nft_program.nonce = lastOp.nonce
    /\ Balance(token_accounts, lastOp.mint, lastOp.who) = 0
    /\ Balance(token_accounts, lastOp.mint, NFT_PROGRAM_PDA) = 1
    /\ UnlockedMints # {}

-----------------------------------------------------------------------------
(* The outbound message *)

-----------------------------------------------------------------------------
(* Inbound Transfer *)

\* what an inbound Transfer carrying msg is to do to the asset at mint
InboundTransferEffects(mint, msg) ==
    /\ Balance(token_accounts', mint, msg.recipient)
           = Balance(token_accounts, mint, msg.recipient) + 1
    /\ \A k \in DOMAIN token_accounts \ {<<mint, msg.recipient>>} :
           token_accounts'[k] = token_accounts[k]
    /\ mint \in DOMAIN nft_info'
    /\ nft_info'[mint].owner = msg.recipient
    /\ nft_info'[mint].name = msg.name
    /\ nft_info'[mint].symbol = msg.symbol
    /\ nft_info'[mint].metadata_uri = msg.metadata_uri
    /\ ~nft_info'[mint].is_locked
    /\ nft_info'[mint].cross_chain_recipient = ZeroKey
    /\ nft_program'.total_supply = CheckedAdd1(nft_program.total_supply).val
    /\ nft_program'.nonce = msg.nonce

\* C18: an accepted inbound Transfer delivers exactly one unit of the asset's
\* token to the token account of message.recipient, leaves the record with
\* owner = message.recipient, the message's name, symbol and metadata_uri,
\* is_locked = false and cross_chain_recipient zeroed (creating the record when
\* it did not exist), and raises total_supply by 1 and the nonce to
\* message.nonce.
C18_InboundTransferDelivers ==
    \A stack \in OnCallStacks, s \in Senders, d \in TransferData :
        OnCallGuard(stack, d) = "Ok" =>
            ~ENABLED ( /\ on_call(stack, 0, s, d)
                       /\ Accepted
                       /\ ~InboundTransferEffects(MintPda(MintKeyArg(0, s, d)),
                                                  TryFromSlice(d).msg) )

-----------------------------------------------------------------------------
(* Inbound Unlock *)

\* what an inbound Unlock is to do to the asset at mint
InboundUnlockEffects(mint) ==
    LET owner == nft_info[mint].owner IN
    /\ Balance(token_accounts', mint, NFT_PROGRAM_PDA)
           = Balance(token_accounts, mint, NFT_PROGRAM_PDA) - 1
    /\ Balance(token_accounts', mint, owner) = Balance(token_accounts, mint, owner) + 1
    /\ \A k \in DOMAIN token_accounts \ {<<mint, NFT_PROGRAM_PDA>>, <<mint, owner>>} :
           token_accounts'[k] = token_accounts[k]
    /\ nft_info'[mint].owner = owner
    /\ ~nft_info'[mint].is_locked
    /\ nft_info'[mint].cross_chain_recipient = ZeroKey

\* C19: an accepted inbound Unlock moves exactly one unit from the program's
\* custody account of the asset to the token account of the record's owner and
\* to no other holder's, and leaves the record with its owner unchanged,
\* is_locked = false and cross_chain_recipient zeroed.
C19_InboundUnlockReturnsToOwner ==
    \A stack \in OnCallStacks, s \in Senders, d \in UnlockData :
        OnCallGuard(stack, d) = "Ok" =>
            ~ENABLED ( /\ on_call(stack, 0, s, d)
                       /\ Accepted
                       /\ ~InboundUnlockEffects(MintPda(MintKeyArg(0, s, d))) )

-----------------------------------------------------------------------------
(* Inbound payloads that are no valid message *)

\* C20: an inbound call of the gateway whose data is no valid CrossChainMessage
\* (an unknown type tag, a truncated buffer, a malformed length prefix, or a
\* name, symbol or metadata_uri longer than 32, 10 or 200 bytes) fails with
\* InvalidMessage, and changes neither the stored nonce nor any record.
C20_InvalidDataRejected ==
    \A stack \in OnCallStacks, s \in Senders, d \in LengthData \cup MalformedSamples :
        LET out == TryFromSlice(d) IN
        ( /\ nft_program.exists
          /\ CurrentIxProgram(stack) = GATEWAY_ID
          /\ \/ ~out.ok
             \/ ~WithinBounds(out.msg.name, out.msg.symbol, out.msg.metadata_uri) )
        => /\ OnCallGuard(stack, d) = "InvalidMessage"
           /\ ~ENABLED ( /\ on_call(stack, 0, s, d)
                         /\ \/ nft_program'.nonce # nft_program.nonce
                            \/ nft_info' # nft_info )

-----------------------------------------------------------------------------
(* Locks of different assets *)

\* an accepted transfer_to_zetachain
LockStep == Accepted /\ lastOp'.op = "transfer_to_zetachain"

\* C21 as stated: of two transfer_to_zetachain calls on two different assets,
\* each of which would succeed from the current state, the second still succeeds
\* after the first has been executed, in whichever order they are taken.
C21_LocksNeverContend ==
    [][ LockStep =>
            \A o \in Users, m \in Mints \ {lastOp'.mint}, n \in Nonces :
                TransferResult(o, m, n) = "Ok" => (TransferResult(o, m, n) = "Ok")' ]_vars

\* C21: of two transfer_to_zetachain calls on two different assets, each of
\* which would succeed from the current state, the second still succeeds after
\* the first has been executed exactly when its nonce is greater than the
\* first's, and fails with InvalidNonce otherwise; the first changes nothing
\* else the second depends on (its record, its owner's token account).
C21_LocksContendOnlyOnNonce ==
    [][ LockStep =>
            \A o \in Users, m \in Mints \ {lastOp'.mint}, n \in Nonces :
                TransferResult(o, m, n) = "Ok" =>
                    /\ nft_info'[m] = nft_info[m]
                    /\ token_accounts'[<<m, o>>] = token_accounts[<<m, o>>]
                    /\ (TransferResult(o, m, n) =
                            IF n > lastOp.nonce THEN "Ok" ELSE "InvalidNonce")' ]_vars

\* two different assets locked one after the other, both units in custody
C21_Witness ==
    /\ lastOp.op = "transfer_to_zetachain"
    /\ \E m \in DOMAIN nft_info \ {lastOp.mint} :
           /\ nft_info[m].is_locked
           /\ nft_info[lastOp.mint].is_locked
           /\ Balance(token_accounts, m, NFT_PROGRAM_PDA) = 1
           /\ Balance(token_accounts, lastOp.mint, NFT_PROGRAM_PDA) = 1

-----------------------------------------------------------------------------
(* The asset an inbound call works on *)

\* the step created or changed no record and no mint other than mint's
OnlyAssetTouched(mint) ==
    /\ \A m \in DOMAIN nft_info' \ {mint} : m \in DOMAIN nft_info /\ nft_info'[m] = nft_info[m]
    /\ \A m \in DOMAIN mint_supply' \ {mint} :
           m \in DOMAIN mint_supply /\ mint_supply'[m] = mint_supply[m]
    /\ \A k \in DOMAIN token_accounts' :
           k[1] # mint => k \in DOMAIN token_accounts /\ token_accounts'[k] = token_accounts[k]

\* C22: an accepted on_call reads and changes only the asset named by the mint
\* field of the decoded message: the mint, the NftInfo and the lock state it
\* touches are those of message.mint, and every other asset's record is
\* unchanged.
C22_OnCallTouchesMessageAsset ==
    \A stack \in OnCallStacks, s \in Senders, d \in OnCallData :
        OnCallGuard(stack, d) = "Ok" =>
            ~ENABLED ( /\ on_call(stack, 0, s, d)
                       /\ Accepted
                       /\ ~OnlyAssetTouched(TryFromSlice(d).msg.mint) )

-----------------------------------------------------------------------------
(* One unit per asset *)

\* the units of mint held over all token accounts, custody included
UnitsHeld(mint) == SumOver(token_accounts, {k \in DOMAIN token_accounts : k[1] = mint})

\* C23: in every reachable state every asset has at most one token unit over
\* all token accounts, the owners' and the program's custody account together,
\* also after several accepted inbound Transfers for one asset and after an
\* inbound Transfer for an asset that is locked in custody.
C23_AtMostOneUnit ==
    \A m \in DOMAIN nft_info : UnitsHeld(m) <= 1 /\ mint_supply[m] <= 1

-----------------------------------------------------------------------------
(* The lock flag and the custody account *)

\* C24: in every reachable state, for every asset, is_locked is true if and only
\* if the asset's unit is in the program's custody account: an unlocked record
\* never has its unit in custody, and a locked record never has its unit in an
\* owner's token account.
C24_LockedIffInCustody ==
    \A m \in DOMAIN nft_info :
        /\ nft_info[m].is_locked <=> Balance(token_accounts, m, NFT_PROGRAM_PDA) >= 1
        /\ nft_info[m].is_locked => \A u \in Users : Balance(token_accounts, m, u) = 0

-----------------------------------------------------------------------------
(* Who advances the nonce *)

\* C25: the stored nonce changes only in transfer_to_zetachain or unlock_nft,
\* which the asset's owner signs, or in an on_call that passed the gateway
\* guard; handle_cross_chain_call, which anyone can invoke, changes no field of
\* NftProgramState.
C25_NonceOnlyByOwnerOrGateway ==
    [][ /\ nft_program'.nonce # nft_program.nonce =>
               \/ /\ lastOp'.op \in {"transfer_to_zetachain", "unlock_nft"}
                  /\ lastOp'.mint \in DOMAIN nft_info
                  /\ nft_info[lastOp'.mint].owner = lastOp'.who
               \/ /\ lastOp'.op = "on_call"
                  /\ CurrentIxProgram(lastOp'.stack) = GATEWAY_ID
        /\ (Accepted /\ lastOp'.op = "handle_cross_chain_call") =>
               nft_program' = nft_program ]_vars

-----------------------------------------------------------------------------
(* Return of a locked asset *)

\* the mint every sampled on_call resolves to
PdaMint == MintPda(MintKeyArg(0, Rep(SenderLen, 0), GoodBytes))

AssetMints == KeypairMints \cup {PdaMint}

IsLocked(m) == m \in DOMAIN nft_info /\ nft_info[m].is_locked

\* the asset is unlocked and its owner holds a unit of it
Returned(m) ==
    /\ m \in DOMAIN nft_info
    /\ ~nft_info[m].is_locked
    /\ Balance(token_accounts, m, nft_info[m].owner) >= 1

\* an unlock request for m that is accepted and returns the unit to the owner:
\* unlock_nft signed by the owner, or an Unlock message brought by the gateway
\* with the custody account and the owner's token account. The nonce is any
\* value the u64 argument can carry; the greatest one of the range, MaxNonce,
\* stands for u64::MAX, above which there is none.
UnlockRequest(m) ==
    \/ \E n \in Nonces : unlock_nft(InfoOrZero(m).owner, m, n) /\ Accepted
    \/ \E s \in Senders, d \in UnlockData :
           /\ MintPda(MintKeyArg(0, s, d)) = m
           /\ on_call(<<GATEWAY_ID, PROGRAM_ID>>, 0, s, d)
           /\ Accepted
           /\ InboundUnlockEffects(m)

\* unlock requests with fresh nonces are delivered fairly
SpecUnlockFair == Spec /\ \A m \in AssetMints : SF_vars(UnlockRequest(m))

\* C26: a locked asset is never stuck: in every reachable state in which a
\* record has is_locked = true there is a nonce with which an unlock of that
\* asset, by the gateway's Unlock message or by the owner's unlock_nft, is
\* accepted, and under fair delivery of unlock requests every locked asset is
\* eventually unlocked and back with its owner, whatever nonces the operations
\* accepted before have used.
C26_LockedEventuallyReturned ==
    /\ [](\A m \in AssetMints : IsLocked(m) => ENABLED UnlockRequest(m))
    /\ \A m \in AssetMints : IsLocked(m) ~> Returned(m)

====
